---- MODULE Spec2Model ----
(***************************************************************************)
(* Rendering of the hush abstract syntax tree: the human renderer of       *)
(* src/syntax/ast/fmt.rs and the diagnostic renderer of                    *)
(* src/syntax/ast/debug.rs.                                                *)
(*                                                                         *)
(* A rendered text is a sequence of tokens whose concatenation is the text *)
(* written to the formatter.  Every space, newline, indentation unit,      *)
(* keyword and punctuation mark is a token of its own.  Colour annotations *)
(* (term::color) wrap a span without changing its characters and are left  *)
(* out.  A byte string is a sequence of chunks; a chunk is either a run of *)
(* printable characters or one control or quote character.                 *)
(***************************************************************************)
EXTENDS Integers, Sequences, FiniteSets, TLC

VARIABLES
  node,              \* the tree node handed to the renderer
  ambient,           \* the Context the human renderer works under
  out,               \* text written by the human renderer
  dbg,               \* text written by the diagnostic renderer
  pc,                \* "ready", "shown" (human render done), "dumped" (diagnostic render done)
  indents,           \* number of indent() calls applied to the context
  forcedAt,          \* Some(value of indents when inlined() was first applied), or None
  illFormedIsEmpty   \* the answer of Block::is_empty on the ill-formed sentinel

vars == <<node, ambient, out, dbg, pc, indents, forcedAt, illFormedIsEmpty>>

\* Bounds of the model.
MaxNest == 2
MaxDepth == 2

----------------------------------------------------------------------------
\* Text primitives.

NL == "\n"
SP == " "
IndentUnit == "    "
NoBranch == "<no matching arm>"

RECURSIVE Flatten(_)
Flatten(texts) ==
  IF Len(texts) = 0 THEN <<>>
  ELSE IF Len(texts) = 1 THEN texts[1]
  ELSE LET half == Len(texts) \div 2 IN
         Flatten(SubSeq(texts, 1, half)) \o Flatten(SubSeq(texts, half + 1, Len(texts)))

sep_by(texts, sep) ==
  Flatten([i \in 1..Len(texts) |-> IF i = 1 THEN texts[i] ELSE sep \o texts[i]])

\* char::escape_debug on one chunk: control and quote characters become a
\* visible backslash escape, printable runs are unchanged.
escape_debug_char(c) ==
  CASE c = "\n" -> <<"\\n">>
    [] c = "\t" -> <<"\\t">>
    [] c = "\"" -> <<"\\\"">>
    [] c = "'" -> <<"\\'">>
    [] c = "\\" -> <<"\\\\">>
    [] OTHER -> <<c>>

escape_debug(bytes) ==
  Flatten([i \in 1..Len(bytes) |-> escape_debug_char(bytes[i])])

IndentationFmt(depth) == [i \in 1..depth |-> IndentUnit]

IntFmt(i) == <<ToString(i)>>

ILL_FORMED == <<"***ill-formed***">>

----------------------------------------------------------------------------
\* The name resolver and the context.

Handles == {1, 2}
Interner == [h \in Handles |-> IF h = 1 THEN "x" ELSE "name"]

SymbolFmt(symbol, interner) == <<interner[symbol]>>

None == <<>>
Some(v) == <<v>>
is_some(option) == option /= None

increase(depth) == depth + 1

ContextFrom(interner) == [interner |-> interner, indentation |-> Some(0)]

indent(context) ==
  [context EXCEPT !.indentation = IF is_some(@) THEN Some(increase(@[1])) ELSE None]

\* inlined() that forgets to clear the indentation.
inlined_kept(context) == context

inlined(context) == [context EXCEPT !.indentation = None]

step(ctx) ==
  IF is_some(ctx.indentation)
    THEN <<NL>> \o IndentationFmt(ctx.indentation[1])
    ELSE <<SP>>

----------------------------------------------------------------------------
\* Lookup tables of the lexer and helpers of the tree types.

KeywordFmt(keyword) == <<keyword>>

OperatorFmt(op) ==
  CASE op = "Minus" -> <<"-">>
    [] op = "Not" -> <<"not">>
    [] op = "Try" -> <<"?">>
    [] op = "Plus" -> <<"+">>
    [] op = "Times" -> <<"*">>
    [] op = "Div" -> <<"/">>
    [] op = "Mod" -> <<"%">>
    [] op = "Equals" -> <<"==">>
    [] op = "NotEquals" -> <<"!=">>
    [] op = "Greater" -> <<">">>
    [] op = "GreaterEquals" -> <<">=">>
    [] op = "Lower" -> <<"<">>
    [] op = "LowerEquals" -> <<"<=">>
    [] op = "And" -> <<"and">>
    [] op = "Or" -> <<"or">>
    [] op = "Concat" -> <<"++">>

PipeFmt == <<"|">>
CommandTryFmt == <<"?">>

is_postfix(op) == op = "Try"

IllFormedPos == 0

\* Block::is_empty is defined with the tree types; what it answers on the
\* ill-formed sentinel is left open (illFormedIsEmpty is chosen at Init).
is_empty(block) ==
  IF block.k = "BlockIllFormed" THEN illFormedIsEmpty ELSE block.stmts = <<>>

from_utf8_lossy(bytes) ==
  [i \in 1..Len(bytes) |-> IF bytes[i] = "<0xFF>" THEN "<U+FFFD>" ELSE bytes[i]]

----------------------------------------------------------------------------
\* The human renderer, shell constructs (fmt.rs, 416-615).

RECURSIVE FmtArgument(_, _), FmtArgPart(_, _), FmtArgExpansion(_, _)

FmtArgUnit(unit, interner) ==
  CASE unit.k = "UnitLiteral" -> escape_debug(from_utf8_lossy(unit.lit))
    [] unit.k = "Dollar" -> <<"${">> \o SymbolFmt(unit.symbol, interner) \o <<"}">>

FmtArgExpansion(expansion, interner) ==
  CASE expansion.k = "Home" -> <<"~/">>
    [] expansion.k = "Range" ->
         <<"{">> \o IntFmt(expansion.start) \o <<"..">> \o IntFmt(expansion.end) \o <<"}">>
    [] expansion.k = "Collection" ->
         <<"{">>
         \o sep_by([i \in 1..Len(expansion.items) |->
                      FmtArgument(expansion.items[i], interner)], <<",">>)
         \o <<"}">>
    [] expansion.k = "Star" -> <<"*">>
    [] expansion.k = "Question" -> <<"?">>
    [] expansion.k = "CharClass" ->
         <<"[">> \o escape_debug(from_utf8_lossy(expansion.chars)) \o <<"]">>

FmtArgPart(part, interner) ==
  CASE part.k = "Unit" -> FmtArgUnit(part.unit, interner)
    [] part.k = "Expansion" -> FmtArgExpansion(part.expansion, interner)

FmtArgument(arg, interner) ==
  IF arg.pos = IllFormedPos
    THEN ILL_FORMED
    ELSE <<"\"">>
         \o Flatten([i \in 1..Len(arg.parts) |-> FmtArgPart(arg.parts[i], interner)])
         \o <<"\"">>

FmtRedirectionTarget(target, interner) ==
  CASE target.k = "Fd" -> <<">">> \o IntFmt(target.fd)
    [] target.k = "Overwrite" -> <<">">> \o FmtArgument(target.arg, interner)
    [] target.k = "Append" -> <<">>">> \o FmtArgument(target.arg, interner)

FmtRedirection(redirection, interner) ==
  CASE redirection.k = "RedirectionIllFormed" -> ILL_FORMED
    [] redirection.k = "Output" ->
         IntFmt(redirection.source) \o FmtRedirectionTarget(redirection.target, interner)
    [] redirection.k = "Input" /\ ~redirection.literal ->
         <<"<">> \o FmtArgument(redirection.source, interner)
    [] redirection.k = "Input" /\ redirection.literal ->
         <<"<<">> \o FmtArgument(redirection.source, interner)

FmtBasicCommand(cmd, interner) ==
  FmtArgument(cmd.program, interner)
  \o Flatten([i \in 1..Len(cmd.arguments) |->
                <<SP>> \o FmtArgument(cmd.arguments[i], interner)])
  \o Flatten([i \in 1..Len(cmd.redirections) |->
                <<SP>> \o FmtRedirection(cmd.redirections[i], interner)])
  \o (IF ~cmd.abort_on_error THEN <<SP>> \o CommandTryFmt ELSE <<>>)

FmtCommand(cmd, interner) ==
  FmtBasicCommand(cmd.head, interner)
  \o Flatten([i \in 1..Len(cmd.tail) |->
                <<SP>> \o PipeFmt \o <<SP>> \o FmtBasicCommand(cmd.tail[i], interner)])

FmtCommandBlockKind(kind) ==
  CASE kind = "Synchronous" -> <<"{">>
    [] kind = "Asynchronous" -> <<"&{">>
    [] kind = "Capture" -> <<"${">>

\* A command block whose closer is stepped at the nested depth.
FmtCommandBlock_closer_nested(block, context) ==
  LET nested == indent(context) IN
    FmtCommandBlockKind(block.kind)
    \o step(nested)
    \o FmtCommand(block.head, context.interner)
    \o Flatten([i \in 1..Len(block.tail) |->
                  <<";">> \o step(nested) \o FmtCommand(block.tail[i], context.interner)])
    \o step(nested)
    \o <<"}">>

FmtCommandBlock(block, context) ==
  LET nested == indent(context) IN
    FmtCommandBlockKind(block.kind)
    \o step(nested)
    \o FmtCommand(block.head, context.interner)
    \o Flatten([i \in 1..Len(block.tail) |->
                  <<";">> \o step(nested) \o FmtCommand(block.tail[i], context.interner)])
    \o step(context)
    \o <<"}">>

----------------------------------------------------------------------------
\* The human renderer, core language constructs (fmt.rs, 67-413).

RECURSIVE FmtBlock(_, _), FmtLiteral(_, _), FmtExpr(_, _), FmtStatement(_, _)


\* A block that writes its own indentation before the ill-formed marker.
FmtBlock_marker_indented(block, context) ==
  CASE block.k = "BlockIllFormed" ->
         (IF is_some(context.indentation)
            THEN IndentationFmt(context.indentation[1])
            ELSE <<SP>>)
         \o ILL_FORMED
    [] block.k = "Block" ->
         sep_by(
           [i \in 1..Len(block.stmts) |->
              (IF is_some(context.indentation)
                 THEN IndentationFmt(context.indentation[1])
                 ELSE <<SP>>)
              \o FmtStatement(block.stmts[i], context)],
           IF is_some(context.indentation) THEN <<NL>> ELSE <<";">>)

\* A block that keeps one mutable context: a loop statement leaves the
\* depth of its body behind for the statement after it.
FmtBlock_leaky(block, context) ==
  CASE block.k = "BlockIllFormed" -> ILL_FORMED
    [] block.k = "Block" ->
         sep_by(
           [i \in 1..Len(block.stmts) |->
              LET left == IF i > 1 /\ block.stmts[i - 1].k \in {"While", "For"}
                            THEN indent(context) ELSE context
              IN (IF is_some(left.indentation)
                    THEN IndentationFmt(left.indentation[1])
                    ELSE <<SP>>)
                 \o FmtStatement(block.stmts[i], left)],
           IF is_some(context.indentation) THEN <<NL>> ELSE <<";">>)

FmtBlock(block, context) ==
  CASE block.k = "BlockIllFormed" -> ILL_FORMED
    [] block.k = "Block" ->
         sep_by(
           [i \in 1..Len(block.stmts) |->
              (IF is_some(context.indentation)
                 THEN IndentationFmt(context.indentation[1])
                 ELSE <<SP>>)
              \o FmtStatement(block.stmts[i], context)],
           IF is_some(context.indentation) THEN <<NL>> ELSE <<";">>)

FmtLiteral(literal, context) ==
  CASE literal.k = "Nil" -> <<"nil">>
    [] literal.k = "Bool" -> IF literal.b THEN <<"true">> ELSE <<"false">>
    [] literal.k = "Int" -> IntFmt(literal.i)
    [] literal.k = "Float" -> <<literal.text>>
    [] literal.k = "Byte" -> <<"'">> \o escape_debug_char(literal.c) \o <<"'">>
    [] literal.k = "String" ->
         <<"\"">> \o escape_debug(from_utf8_lossy(literal.s)) \o <<"\"">>
    [] literal.k = "Array" ->
         LET nested == indent(context) IN
           <<"[">>
           \o sep_by([i \in 1..Len(literal.arr) |->
                        step(nested) \o FmtExpr(literal.arr[i], nested)], <<",">>)
           \o (IF literal.arr /= <<>> THEN step(context) ELSE <<>>)
           \o <<"]">>
    [] literal.k = "Dict" ->
         LET nested == indent(context) IN
           <<"@[">>
           \o sep_by([i \in 1..Len(literal.dict) |->
                        step(nested)
                        \o SymbolFmt(literal.dict[i].key, nested.interner)
                        \o <<":", SP>>
                        \o FmtExpr(literal.dict[i].value, nested)], <<",">>)
           \o (IF literal.dict /= <<>> THEN step(context) ELSE <<>>)
           \o <<"]">>
    [] literal.k = "Function" ->
         KeywordFmt("function")
         \o <<"(">>
         \o sep_by([i \in 1..Len(literal.params) |->
                      SymbolFmt(literal.params[i], context.interner)], <<",", SP>>)
         \o (IF is_some(context.indentation) THEN <<")", NL>> ELSE <<")">>)
         \o FmtBlock(literal.body, indent(context))
         \o step(context)
         \o KeywordFmt("end")
    [] literal.k = "LitIdentifier" -> SymbolFmt(literal.identifier, context.interner)

\* A conditional that drops `then` together with an empty then-block.
FmtIf_then_omitted(expr, context) ==
  LET stp == IF is_some(context.indentation) THEN <<NL>> ELSE <<SP>>
      ind == IF is_some(context.indentation)
               THEN IndentationFmt(context.indentation[1]) ELSE <<>>
  IN
    KeywordFmt("if")
    \o <<SP>>
    \o FmtExpr(expr.condition, inlined(context))
    \o <<SP>>
    \o (IF ~is_empty(expr.then)
          THEN KeywordFmt("then")
               \o (IF is_some(context.indentation) THEN <<NL>> ELSE <<>>)
               \o FmtBlock(expr.then, indent(context)) \o stp
          ELSE <<>>)
    \o ind
    \o (IF ~is_empty(expr.otherwise)
          THEN KeywordFmt("else")
               \o (IF is_some(context.indentation) THEN <<NL>> ELSE <<>>)
               \o FmtBlock(expr.otherwise, indent(context))
               \o stp
               \o ind
          ELSE <<>>)
    \o KeywordFmt("end")

FmtIf(expr, context) ==
  LET stp == IF is_some(context.indentation) THEN <<NL>> ELSE <<SP>>
      ind == IF is_some(context.indentation)
               THEN IndentationFmt(context.indentation[1]) ELSE <<>>
  IN
    KeywordFmt("if")
    \o <<SP>>
    \o FmtExpr(expr.condition, inlined(context))
    \o <<SP>>
    \o KeywordFmt("then")
    \o (IF is_some(context.indentation) THEN <<NL>> ELSE <<>>)
    \o (IF ~is_empty(expr.then)
          THEN FmtBlock(expr.then, indent(context)) \o stp
          ELSE <<>>)
    \o ind
    \o (IF ~is_empty(expr.otherwise)
          THEN KeywordFmt("else")
               \o (IF is_some(context.indentation) THEN <<NL>> ELSE <<>>)
               \o FmtBlock(expr.otherwise, indent(context))
               \o stp
               \o ind
          ELSE <<>>)
    \o KeywordFmt("end")

FmtExpr(expr, context) ==
  CASE expr.k = "ExprIllFormed" -> ILL_FORMED
    [] expr.k = "Self" -> KeywordFmt("self")
    [] expr.k = "Identifier" -> SymbolFmt(expr.identifier, context.interner)
    [] expr.k = "Literal" -> FmtLiteral(expr.literal, context)
    [] expr.k = "UnaryOp" ->
         LET postfix == is_postfix(expr.op) IN
           <<"(">>
           \o (IF ~postfix THEN OperatorFmt(expr.op) \o <<SP>> ELSE <<>>)
           \o FmtExpr(expr.operand, inlined(context))
           \o (IF postfix THEN <<SP>> \o OperatorFmt(expr.op) ELSE <<>>)
           \o <<")">>
    [] expr.k = "BinaryOp" ->
         <<"(">>
         \o FmtExpr(expr.left, inlined(context))
         \o <<SP>> \o OperatorFmt(expr.op) \o <<SP>>
         \o FmtExpr(expr.right, inlined(context))
         \o <<")">>
    [] expr.k = "If" -> FmtIf(expr, context)
    [] expr.k = "Access"
       /\ expr.field.k = "Literal" /\ expr.field.literal.k = "LitIdentifier" ->
         FmtExpr(expr.object, inlined(context))
         \o <<".">>
         \o FmtExpr(expr.field, inlined(context))
    [] expr.k = "Access"
       /\ ~(expr.field.k = "Literal" /\ expr.field.literal.k = "LitIdentifier") ->
         FmtExpr(expr.object, inlined(context))
         \o <<"[">>
         \o FmtExpr(expr.field, inlined(context))
         \o <<"]">>
    [] expr.k = "Call" ->
         FmtExpr(expr.function, inlined(context))
         \o <<"(">>
         \o sep_by([i \in 1..Len(expr.args) |->
                      FmtExpr(expr.args[i], inlined(context))], <<",", SP>>)
         \o <<")">>
    [] expr.k = "CommandBlock" -> FmtCommandBlock(expr.block, context)

FmtStatement(statement, context) ==
  LET stp == IF is_some(context.indentation) THEN <<NL>> ELSE <<SP>>
      ind == IF is_some(context.indentation)
               THEN IndentationFmt(context.indentation[1]) ELSE <<>>
  IN
  CASE statement.k = "StatementIllFormed" -> ILL_FORMED
    [] statement.k = "Let" ->
         KeywordFmt("let")
         \o <<SP>>
         \o SymbolFmt(statement.identifier, context.interner)
         \o <<SP, "=", SP>>
         \o FmtExpr(statement.init, context)
    [] statement.k = "Assign" ->
         FmtExpr(statement.left, inlined(context))
         \o <<SP, "=", SP>>
         \o FmtExpr(statement.right, context)
    [] statement.k = "Return" ->
         KeywordFmt("return") \o <<SP>> \o FmtExpr(statement.expr, context)
    [] statement.k = "Break" -> KeywordFmt("break")
    [] statement.k = "While" ->
         KeywordFmt("while")
         \o <<SP>>
         \o FmtExpr(statement.condition, inlined(context))
         \o <<SP>>
         \o KeywordFmt("do")
         \o stp
         \o (IF ~is_empty(statement.block)
               THEN FmtBlock(statement.block, indent(context)) \o stp
               ELSE <<>>)
         \o ind
         \o KeywordFmt("end")
    [] statement.k = "For" ->
         KeywordFmt("for")
         \o <<SP>>
         \o SymbolFmt(statement.identifier, context.interner)
         \o <<SP>>
         \o KeywordFmt("in")
         \o <<SP>>
         \o FmtExpr(statement.expr, inlined(context))
         \o <<SP>>
         \o KeywordFmt("do")
         \o stp
         \o (IF ~is_empty(statement.block)
               THEN FmtBlock(statement.block, indent(context)) \o stp
               ELSE <<>>)
         \o ind
         \o KeywordFmt("end")
    [] statement.k = "Expr" -> FmtExpr(statement.expr, context)

----------------------------------------------------------------------------
\* The formatter builders of std::fmt used by the diagnostic renderer.

\* PadAdapter: an indentation unit at the start of every line written
\* through it.
Pad(text) ==
  Flatten([i \in 1..Len(text) |->
             IF i = 1 \/ text[i - 1] = NL THEN <<IndentUnit, text[i]>> ELSE <<text[i]>>])

\* debug_set / debug_list / debug_map over already rendered entries.
DebugEntries(open, entries, close, alternate) ==
  IF alternate
    THEN <<open>>
         \o (IF entries /= <<>> THEN <<NL>> ELSE <<>>)
         \o Flatten([i \in 1..Len(entries) |-> Pad(entries[i] \o <<",", NL>>)])
         \o <<close>>
    ELSE <<open>> \o sep_by(entries, <<",", SP>>) \o <<close>>

\* The derived Debug of the shell nodes prints every field of the node.
\* Byte strings print as lists of numbers, so no byte is written raw.  The
\* layout is the compact one.
ByteNumber(c) ==
  CASE c = "\n" -> <<"10">>
    [] c = "\t" -> <<"9">>
    [] c = "\"" -> <<"34">>
    [] c = "'" -> <<"39">>
    [] c = "\\" -> <<"92">>
    [] c = "<0xFF>" -> <<"255">>
    [] OTHER -> <<"codes-of(", c, ")">>

ByteNumbers(bytes) ==
  <<"[">> \o sep_by([i \in 1..Len(bytes) |-> ByteNumber(bytes[i])], <<",", SP>>) \o <<"]">>

RECURSIVE DeriveDebugArgument(_)
DeriveDebugArgPart(part) ==
  CASE part.k = "Unit" /\ part.unit.k = "UnitLiteral" ->
         <<"Unit(Literal(">> \o ByteNumbers(part.unit.lit) \o <<"))">>
    [] part.k = "Unit" /\ part.unit.k = "Dollar" ->
         <<"Unit(Dollar(", ToString(part.unit.symbol), "))">>
    [] part.k = "Expansion" /\ part.expansion.k = "Range" ->
         <<"Expansion(Range(", ToString(part.expansion.start), ",", SP,
           ToString(part.expansion.end), "))">>
    [] part.k = "Expansion" /\ part.expansion.k = "Collection" ->
         <<"Expansion(Collection([">>
         \o sep_by([i \in 1..Len(part.expansion.items) |->
                      DeriveDebugArgument(part.expansion.items[i])], <<",", SP>>)
         \o <<"]))">>
    [] part.k = "Expansion" /\ part.expansion.k = "CharClass" ->
         <<"Expansion(CharClass(">> \o ByteNumbers(part.expansion.chars) \o <<"))">>
    [] OTHER -> <<"Expansion(", part.expansion.k, ")">>

DeriveDebugArgument(arg) ==
  <<"Argument", SP, "{", SP, "parts:", SP, "[">>
  \o sep_by([i \in 1..Len(arg.parts) |-> DeriveDebugArgPart(arg.parts[i])], <<",", SP>>)
  \o <<"],", SP, "pos:", SP, ToString(arg.pos), SP, "}">>

DeriveDebugRedirection(redirection) ==
  CASE redirection.k = "RedirectionIllFormed" -> <<"IllFormed">>
    [] redirection.k = "Output" ->
         <<"Output", SP, "{", SP, "source:", SP, ToString(redirection.source), ",", SP,
           "target:", SP, redirection.target.k, "(">>
         \o (IF redirection.target.k = "Fd"
               THEN <<ToString(redirection.target.fd)>>
               ELSE DeriveDebugArgument(redirection.target.arg))
         \o <<")", SP, "}">>
    [] redirection.k = "Input" ->
         <<"Input", SP, "{", SP, "literal:", SP,
           IF redirection.literal THEN "true" ELSE "false", ",", SP, "source:", SP>>
         \o DeriveDebugArgument(redirection.source)
         \o <<SP, "}">>

DeriveDebugBasicCommand(cmd) ==
  <<"BasicCommand", SP, "{", SP, "program:", SP>>
  \o DeriveDebugArgument(cmd.program)
  \o <<",", SP, "arguments:", SP, "[">>
  \o sep_by([i \in 1..Len(cmd.arguments) |->
               DeriveDebugArgument(cmd.arguments[i])], <<",", SP>>)
  \o <<"],", SP, "redirections:", SP, "[">>
  \o sep_by([i \in 1..Len(cmd.redirections) |->
               DeriveDebugRedirection(cmd.redirections[i])], <<",", SP>>)
  \o <<"],", SP, "abort_on_error:", SP,
       IF cmd.abort_on_error THEN "true" ELSE "false", SP, "}">>

DeriveDebugCommand(cmd) ==
  <<"Command", SP, "{", SP, "head:", SP>>
  \o DeriveDebugBasicCommand(cmd.head)
  \o <<",", SP, "tail:", SP, "[">>
  \o sep_by([i \in 1..Len(cmd.tail) |-> DeriveDebugBasicCommand(cmd.tail[i])], <<",", SP>>)
  \o <<"]", SP, "}">>

----------------------------------------------------------------------------
\* The diagnostic renderer (debug.rs).  A match that has no arm for the
\* variant it is given writes NoBranch.

IdFmt(symbol) == <<"id#", ToString(symbol)>>

DebugUnaryOp(op) ==
  CASE op = "Minus" -> <<"-">>
    [] op = "Not" -> <<"not">>
    [] OTHER -> <<NoBranch>>

DebugBinaryOp(op) ==
  CASE op = "Plus" -> <<"+">>
    [] op = "Minus" -> <<"-">>
    [] op = "Times" -> <<"*">>
    [] op = "Div" -> <<"/">>
    [] op = "Mod" -> <<"%">>
    [] op = "Equals" -> <<"==">>
    [] op = "NotEquals" -> <<"!=">>
    [] op = "Greater" -> <<">">>
    [] op = "GreaterEquals" -> <<">=">>
    [] op = "Lower" -> <<"<">>
    [] op = "LowerEquals" -> <<"<=">>
    [] op = "And" -> <<"and">>
    [] op = "Or" -> <<"or">>
    [] op = "Concat" -> <<"++">>
    [] OTHER -> <<NoBranch>>

RECURSIVE DebugBlock(_, _), DebugLiteral(_, _), DebugExpr(_, _), DebugStatement(_, _)

DebugBlock(block, alternate) ==
  CASE block.k = "Block" ->
         IF alternate
           THEN DebugEntries("{", [i \in 1..Len(block.stmts) |->
                                     DebugStatement(block.stmts[i], TRUE)], "}", TRUE)
           ELSE Flatten([i \in 1..Len(block.stmts) |->
                           DebugStatement(block.stmts[i], FALSE) \o <<";", SP>>])
    [] OTHER -> <<NoBranch>>

DebugLiteral(literal, alternate) ==
  CASE literal.k = "Nil" -> <<"nil">>
    [] literal.k = "Bool" -> IF literal.b THEN <<"true">> ELSE <<"false">>
    [] literal.k = "Int" -> IntFmt(literal.i)
    [] literal.k = "Float" -> <<literal.text>>
    [] literal.k = "Byte" -> <<"'", literal.c, "'">>
    [] literal.k = "String" -> <<"\"">> \o from_utf8_lossy(literal.s) \o <<"\"">>
    [] literal.k = "Array" ->
         DebugEntries("[", [i \in 1..Len(literal.arr) |->
                              DebugExpr(literal.arr[i], alternate)], "]", alternate)
    [] literal.k = "Dict" ->
         DebugEntries("{", [i \in 1..Len(literal.dict) |->
                              <<"Symbol(", ToString(literal.dict[i].key), ")", ":", SP>>
                              \o DebugExpr(literal.dict[i].value, alternate)],
                      "}", alternate)
    [] literal.k = "Function" ->
         <<"function", SP, "(">>
         \o Flatten([i \in 1..Len(literal.params) |->
                       IdFmt(literal.params[i]) \o <<",", SP>>])
         \o (IF alternate
               THEN <<")", SP>> \o DebugBlock(literal.body, TRUE)
               ELSE <<")", SP>> \o DebugBlock(literal.body, FALSE) \o <<SP, "end">>)
    [] OTHER -> <<NoBranch>>

DebugExpr(expr, alternate) ==
  CASE expr.k = "Self" -> <<"self">>
    [] expr.k = "Identifier" -> IdFmt(expr.identifier)
    [] expr.k = "Literal" -> DebugLiteral(expr.literal, alternate)
    [] expr.k = "UnaryOp" ->
         <<"(">> \o DebugUnaryOp(expr.op) \o <<SP>>
         \o DebugExpr(expr.operand, FALSE) \o <<")">>
    [] expr.k = "BinaryOp" ->
         <<"(">> \o DebugExpr(expr.left, FALSE)
         \o <<SP>> \o DebugBinaryOp(expr.op) \o <<SP>>
         \o DebugExpr(expr.right, FALSE) \o <<")">>
    [] expr.k = "If" ->
         IF alternate
           THEN <<"if", SP>> \o DebugExpr(expr.condition, FALSE)
                \o <<SP>> \o DebugBlock(expr.then, TRUE)
                \o <<SP, "else", SP>> \o DebugBlock(expr.otherwise, TRUE)
           ELSE <<"if", SP>> \o DebugExpr(expr.condition, FALSE)
                \o <<SP, "then", SP>> \o DebugBlock(expr.then, FALSE)
                \o <<SP, "else", SP>> \o DebugBlock(expr.otherwise, FALSE)
                \o <<SP, "end">>
    [] expr.k = "Access" ->
         DebugExpr(expr.object, FALSE) \o <<"[">>
         \o DebugExpr(expr.field, FALSE) \o <<"]">>
    [] expr.k = "Call" ->
         DebugExpr(expr.function, FALSE)
         \o <<"(">>
         \o Flatten([i \in 1..Len(expr.args) |->
                       DebugExpr(expr.args[i], FALSE) \o <<",", SP>>])
         \o <<")">>
    [] expr.k = "CommandBlock" ->
         (CASE expr.block.kind = "Synchronous" -> <<>>
            [] expr.block.kind = "Asynchronous" -> <<"&">>
            [] expr.block.kind = "Capture" -> <<"$">>)
         \o DebugEntries("{",
              LET commands == <<expr.block.head>> \o expr.block.tail IN
                [i \in 1..Len(commands) |-> DeriveDebugCommand(commands[i])],
              "}", alternate)
    [] OTHER -> <<NoBranch>>

DebugStatement(statement, alternate) ==
  CASE statement.k = "Let" -> <<"let", SP>> \o IdFmt(statement.identifier)
    [] statement.k = "Assign" ->
         DebugExpr(statement.left, FALSE) \o <<SP, "=", SP>>
         \o DebugExpr(statement.right, alternate)
    [] statement.k = "Return" ->
         <<"return", SP>> \o DebugExpr(statement.expr, alternate)
    [] statement.k = "Break" -> <<"break">>
    [] statement.k = "While" ->
         IF alternate
           THEN <<"while", SP>> \o DebugExpr(statement.condition, FALSE)
                \o <<SP, "do", SP>> \o DebugBlock(statement.block, TRUE)
           ELSE <<"while", SP>> \o DebugExpr(statement.condition, FALSE)
                \o <<SP, "do", SP>> \o DebugBlock(statement.block, FALSE)
                \o <<SP, "end">>
    [] statement.k = "For" ->
         IF alternate
           THEN <<"for", SP>> \o IdFmt(statement.identifier) \o <<SP, "in", SP>>
                \o DebugExpr(statement.expr, FALSE)
                \o <<SP, "do", SP>> \o DebugBlock(statement.block, TRUE)
           ELSE <<"for", SP>> \o IdFmt(statement.identifier) \o <<SP, "in", SP>>
                \o DebugExpr(statement.expr, FALSE)
                \o <<SP, "do", SP>> \o DebugBlock(statement.block, FALSE)
                \o <<SP, "end">>
    [] statement.k = "Expr" -> DebugExpr(statement.expr, alternate)
    [] OTHER -> <<NoBranch>>

----------------------------------------------------------------------------
\* Tree nodes (the data shapes of the ast module that fmt.rs and debug.rs
\* match on).

BlockOf(stmts) == [k |-> "Block", stmts |-> stmts]
BlockIllFormed == [k |-> "BlockIllFormed"]

LitNil == [k |-> "Nil"]
LitBool(b) == [k |-> "Bool", b |-> b]
LitInt(i) == [k |-> "Int", i |-> i]
LitByte(c) == [k |-> "Byte", c |-> c]
LitString(s) == [k |-> "String", s |-> s]
LitArray(arr) == [k |-> "Array", arr |-> arr]
LitDict(dict) == [k |-> "Dict", dict |-> dict]
LitFunction(params, body) == [k |-> "Function", params |-> params, body |-> body]
LitIdentifier(identifier) == [k |-> "LitIdentifier", identifier |-> identifier]

ExprIllFormed == [k |-> "ExprIllFormed"]
ExprSelf == [k |-> "Self"]
Identifier(identifier) == [k |-> "Identifier", identifier |-> identifier]
Literal(literal) == [k |-> "Literal", literal |-> literal]
UnaryOp(op, operand) == [k |-> "UnaryOp", op |-> op, operand |-> operand]
BinaryOp(left, op, right) == [k |-> "BinaryOp", left |-> left, op |-> op, right |-> right]
If(condition, then, otherwise) ==
  [k |-> "If", condition |-> condition, then |-> then, otherwise |-> otherwise]
Access(object, field) == [k |-> "Access", object |-> object, field |-> field]
Call(function, args) == [k |-> "Call", function |-> function, args |-> args]
CommandBlockExpr(block) == [k |-> "CommandBlock", block |-> block]

StatementIllFormed == [k |-> "StatementIllFormed"]
Let(identifier, init) == [k |-> "Let", identifier |-> identifier, init |-> init]
Assign(left, right) == [k |-> "Assign", left |-> left, right |-> right]
Return(expr) == [k |-> "Return", expr |-> expr]
Break == [k |-> "Break"]
While(condition, block) == [k |-> "While", condition |-> condition, block |-> block]
For(identifier, expr, block) ==
  [k |-> "For", identifier |-> identifier, expr |-> expr, block |-> block]
ExprStatement(expr) == [k |-> "Expr", expr |-> expr]

UnitLiteral(lit) == [k |-> "Unit", unit |-> [k |-> "UnitLiteral", lit |-> lit]]
UnitDollar(symbol) == [k |-> "Unit", unit |-> [k |-> "Dollar", symbol |-> symbol]]
Expansion(expansion) == [k |-> "Expansion", expansion |-> expansion]
Argument(parts, pos) == [k |-> "Argument", parts |-> parts, pos |-> pos]
RedirectionIllFormed == [k |-> "RedirectionIllFormed"]
Output(source, target) == [k |-> "Output", source |-> source, target |-> target]
Input(literal, source) == [k |-> "Input", literal |-> literal, source |-> source]
BasicCommand(program, arguments, redirections, abort_on_error) ==
  [k |-> "BasicCommand", program |-> program, arguments |-> arguments,
   redirections |-> redirections, abort_on_error |-> abort_on_error]
Command(head, tail) == [k |-> "Command", head |-> head, tail |-> tail]
CommandBlock(kind, head, tail) ==
  [k |-> "CommandBlockNode", kind |-> kind, head |-> head, tail |-> tail]

BlockKinds == {"Block", "BlockIllFormed"}
ExprKinds ==
  {"ExprIllFormed", "Self", "Identifier", "Literal", "UnaryOp", "BinaryOp", "If",
   "Access", "Call", "CommandBlock"}
StatementKinds ==
  {"StatementIllFormed", "Let", "Assign", "Return", "Break", "While", "For", "Expr"}
RedirectionKinds == {"RedirectionIllFormed", "Output", "Input"}

----------------------------------------------------------------------------
\* The trees the renderers are run on.

Word(w) == Argument(<<UnitLiteral(<<w>>)>>, 1)
ArgIllFormed == Argument(<<UnitLiteral(<<"ls">>)>>, IllFormedPos)

\* The pipeline `ls -la | grep foo`.
LsGrep ==
  Command(BasicCommand(Word("ls"), <<Word("-la")>>, <<>>, TRUE),
          <<BasicCommand(Word("grep"), <<Word("foo")>>, <<>>, TRUE)>>)

LsGrepBlock == CommandBlock("Synchronous", LsGrep, <<>>)

Arguments ==
  { ArgIllFormed,
    Word("ls"),
    Argument(<<>>, 1),
    Argument(<<UnitLiteral(<<"a", "\n", "\"">>), UnitDollar(1)>>, 2),
    Argument(<<Expansion([k |-> "Home"]), UnitLiteral(<<"a">>),
               Expansion([k |-> "Star"]), Expansion([k |-> "Question"])>>, 1),
    Argument(<<Expansion([k |-> "Range", start |-> 1, end |-> 3]),
               Expansion([k |-> "CharClass", chars |-> <<"a", "\n">>])>>, 1),
    Argument(<<Expansion([k |-> "Collection",
                          items |-> <<Word("a"), ArgIllFormed>>])>>, 1) }

Redirections ==
  { RedirectionIllFormed,
    Output(2, [k |-> "Fd", fd |-> 1]),
    Output(1, [k |-> "Overwrite", arg |-> Word("a")]),
    Output(1, [k |-> "Append", arg |-> ArgIllFormed]),
    Input(FALSE, Word("a")),
    Input(TRUE, ArgIllFormed) }

BasicCommands ==
  { BasicCommand(Word("ls"), <<>>, <<>>, TRUE),
    BasicCommand(Word("ls"), <<Word("-la"), ArgIllFormed>>,
                 <<RedirectionIllFormed, Output(2, [k |-> "Fd", fd |-> 1])>>, FALSE) }

Commands ==
  { LsGrep } \cup { Command(c, <<>>) : c \in BasicCommands }

CommandBlocks ==
  { CommandBlock(kind, LsGrep, tail) :
      kind \in {"Synchronous", "Asynchronous", "Capture"},
      tail \in {<<>>, <<Command(BasicCommand(Word("ls"), <<>>, <<>>, TRUE), <<>>), LsGrep>>} }

ShellNodes == Arguments \cup Redirections \cup BasicCommands \cup Commands \cup CommandBlocks

True == Literal(LitBool(TRUE))
One == Literal(LitInt(1))
X == Identifier(1)

Leaves ==
  { ExprIllFormed,
    X,
    Literal(LitString(<<"a", "\n">>)),
    Literal(LitByte("\n")),
    Literal(LitFunction(<<1>>, BlockIllFormed)),
    Literal(LitFunction(<<1, 2>>, BlockOf(<<Let(1, One), Return(X)>>))),
    Literal(LitArray(<<One, Literal(LitNil)>>)),
    If(True, BlockOf(<<Let(1, One), ExprStatement(X)>>), BlockOf(<<>>)),
    CommandBlockExpr(LsGrepBlock) }

Wrap(e) ==
  { UnaryOp("Not", e),
    UnaryOp("Try", e),
    BinaryOp(e, "Plus", Access(ExprSelf, e)),
    Call(X, <<e, Literal(LitNil)>>),
    Access(e, Literal(LitIdentifier(2))),
    If(e, BlockOf(<<ExprStatement(e), Break>>), BlockOf(<<>>)),
    If(True, BlockOf(<<>>), BlockOf(<<For(1, e, BlockOf(<<Return(e)>>))>>)),
    Literal(LitArray(<<e, One>>)),
    Literal(LitDict(<<[key |-> 2, value |-> e]>>)),
    Literal(LitFunction(<<1, 2>>, BlockOf(<<While(e, BlockOf(<<Assign(e, e)>>))>>))) }

RECURSIVE Exprs(_)
Exprs(n) ==
  IF n <= 0 THEN Leaves ELSE Leaves \cup UNION { Wrap(e) : e \in Exprs(n - 1) }

Conditionals(e) ==
  { If(e, BlockOf(<<>>), BlockOf(<<>>)),
    If(True, BlockOf(<<>>), BlockOf(<<ExprStatement(e), Break>>)),
    If(X, BlockOf(<<Let(1, e)>>), BlockOf(<<Return(e), Break>>)),
    If(True, BlockIllFormed, BlockOf(<<ExprStatement(e)>>)),
    If(e, BlockOf(<<Break>>), BlockIllFormed),
    Literal(LitFunction(<<>>, BlockOf(<<>>))),
    Literal(LitArray(<<>>)),
    Literal(LitDict(<<>>)) }

Statements(e) ==
  { StatementIllFormed,
    Break,
    Let(1, e),
    Let(2, e),
    Assign(e, e),
    Return(e),
    ExprStatement(e),
    While(e, BlockOf(<<>>)),
    While(e, BlockOf(<<ExprStatement(e), Break>>)),
    While(True, BlockIllFormed),
    For(1, e, BlockOf(<<>>)),
    For(2, e, BlockOf(<<Assign(X, e)>>)),
    For(1, e, BlockIllFormed) }

Blocks(e) ==
  { BlockIllFormed,
    BlockOf(<<>>),
    BlockOf(<<ExprStatement(e)>>),
    BlockOf(<<ExprStatement(e), Break>>),
    BlockOf(<<While(e, BlockOf(<<Break>>)), Let(1, e), Return(e)>>) }

Nodes ==
  Exprs(MaxNest)
  \cup UNION { Conditionals(e) \cup Statements(e) \cup Blocks(e) : e \in Exprs(MaxNest - 2) }
  \cup ShellNodes

----------------------------------------------------------------------------
\* The two renderers applied to a node.

Display(n, ctx) ==
  CASE n.k \in BlockKinds -> FmtBlock(n, ctx)
    [] n.k \in ExprKinds -> FmtExpr(n, ctx)
    [] n.k \in StatementKinds -> FmtStatement(n, ctx)
    [] n.k = "Argument" -> FmtArgument(n, ctx.interner)
    [] n.k \in RedirectionKinds -> FmtRedirection(n, ctx.interner)
    [] n.k = "BasicCommand" -> FmtBasicCommand(n, ctx.interner)
    [] n.k = "Command" -> FmtCommand(n, ctx.interner)
    [] n.k = "CommandBlockNode" -> FmtCommandBlock(n, ctx)

Debug(n, alternate) ==
  CASE n.k \in BlockKinds -> DebugBlock(n, alternate)
    [] n.k \in ExprKinds -> DebugExpr(n, alternate)
    [] n.k \in StatementKinds -> DebugStatement(n, alternate)

----------------------------------------------------------------------------
\* The state machine: a caller builds the context, the renderer derives
\* further contexts from it with indent() and inlined() on its way down the
\* tree, and a node is rendered under the context reached.

Init ==
  /\ node \in Nodes
  /\ illFormedIsEmpty \in BOOLEAN
  /\ ambient = ContextFrom(Interner)
  /\ out = <<>>
  /\ dbg = <<>>
  /\ pc = "ready"
  /\ indents = 0
  /\ forcedAt = None

Indent ==
  /\ pc = "ready"
  /\ indents < MaxDepth
  /\ ambient' = indent(ambient)
  /\ indents' = indents + 1
  /\ UNCHANGED <<node, out, dbg, pc, forcedAt, illFormedIsEmpty>>

Inlined ==
  /\ pc = "ready"
  /\ ambient' = inlined(ambient)
  /\ forcedAt' = IF is_some(forcedAt) THEN forcedAt ELSE Some(indents)
  /\ UNCHANGED <<node, out, dbg, pc, indents, illFormedIsEmpty>>

Show ==
  /\ pc = "ready"
  /\ out' = Display(node, ambient)
  /\ pc' = "shown"
  /\ UNCHANGED <<node, ambient, dbg, indents, forcedAt, illFormedIsEmpty>>

Dump ==
  /\ pc = "ready"
  /\ indents = 0
  /\ forcedAt = None
  /\ node.k \in BlockKinds \cup ExprKinds \cup StatementKinds
  /\ \E alternate \in BOOLEAN :
       /\ dbg' = Debug(node, alternate)
       /\ pc' = IF alternate THEN "dumped_expanded" ELSE "dumped"
  /\ UNCHANGED <<node, ambient, out, indents, forcedAt, illFormedIsEmpty>>

Next == Indent \/ Inlined \/ Show \/ Dump

Spec == Init /\ [][Next]_vars

----------------------------------------------------------------------------
\* Vocabulary of the properties.

HasNewline(text) == \E i \in 1..Len(text) : text[i] = NL

Count(text, token) == Cardinality({i \in 1..Len(text) : text[i] = token})

IsInfix(part, text) ==
  \E i \in 0..(Len(text) - Len(part)) : SubSeq(text, i + 1, i + Len(part)) = part

\* Positions at which a line of the text begins.
LineStarts(text) == {i \in 1..Len(text) : i = 1 \/ text[i - 1] = NL}

LastLineStart(text) ==
  CHOOSE i \in LineStarts(text) : \A j \in LineStarts(text) : j <= i

\* Number of indentation units the line beginning at position i starts with.
LeadingIndent(text, i) ==
  CHOOSE n \in 0..Len(text) :
    /\ \A j \in 0..(n - 1) : i + j <= Len(text) /\ text[i + j] = IndentUnit
    /\ ~(i + n <= Len(text) /\ text[i + n] = IndentUnit)

BlankLine(text, i) ==
  LET first == i + LeadingIndent(text, i) IN first > Len(text) \/ text[first] = NL

Shown == pc = "shown"
Indented == is_some(ambient.indentation)
Depth == ambient.indentation[1]

RECURSIVE WellFormedBlock(_), WellFormedExpr(_), WellFormedStatement(_)

WellFormedBlock(block) ==
  /\ block.k = "Block"
  /\ \A i \in 1..Len(block.stmts) : WellFormedStatement(block.stmts[i])

WellFormedExpr(expr) ==
  CASE expr.k = "ExprIllFormed" -> FALSE
    [] expr.k = "Literal" ->
         (CASE expr.literal.k = "Array" ->
                 \A i \in 1..Len(expr.literal.arr) : WellFormedExpr(expr.literal.arr[i])
            [] expr.literal.k = "Dict" ->
                 \A i \in 1..Len(expr.literal.dict) :
                   WellFormedExpr(expr.literal.dict[i].value)
            [] expr.literal.k = "Function" -> WellFormedBlock(expr.literal.body)
            [] OTHER -> TRUE)
    [] expr.k = "UnaryOp" -> WellFormedExpr(expr.operand)
    [] expr.k = "BinaryOp" -> WellFormedExpr(expr.left) /\ WellFormedExpr(expr.right)
    [] expr.k = "If" ->
         /\ WellFormedExpr(expr.condition)
         /\ WellFormedBlock(expr.then)
         /\ WellFormedBlock(expr.otherwise)
    [] expr.k = "Access" -> WellFormedExpr(expr.object) /\ WellFormedExpr(expr.field)
    [] expr.k = "Call" ->
         /\ WellFormedExpr(expr.function)
         /\ \A i \in 1..Len(expr.args) : WellFormedExpr(expr.args[i])
    [] OTHER -> TRUE

WellFormedStatement(statement) ==
  CASE statement.k = "StatementIllFormed" -> FALSE
    [] statement.k = "Let" -> WellFormedExpr(statement.init)
    [] statement.k = "Assign" ->
         WellFormedExpr(statement.left) /\ WellFormedExpr(statement.right)
    [] statement.k = "Return" -> WellFormedExpr(statement.expr)
    [] statement.k = "While" ->
         WellFormedExpr(statement.condition) /\ WellFormedBlock(statement.block)
    [] statement.k = "For" ->
         WellFormedExpr(statement.expr) /\ WellFormedBlock(statement.block)
    [] statement.k = "Expr" -> WellFormedExpr(statement.expr)
    [] OTHER -> TRUE

\* The node opens a nested block: its first line introduces nested content
\* and its last line closes it.
IsFunction(n) == n.k = "Literal" /\ n.literal.k = "Function"
IsNonEmptyArray(n) == n.k = "Literal" /\ n.literal.k = "Array" /\ n.literal.arr /= <<>>
IsNonEmptyDict(n) == n.k = "Literal" /\ n.literal.k = "Dict" /\ n.literal.dict /= <<>>

OpensBlock(n) ==
  \/ n.k \in {"If", "While", "For", "CommandBlock", "CommandBlockNode"}
  \/ IsFunction(n)
  \/ IsNonEmptyArray(n)
  \/ IsNonEmptyDict(n)

Closer(n) ==
  CASE n.k \in {"If", "While", "For"} -> "end"
    [] n.k \in {"CommandBlock", "CommandBlockNode"} -> "}"
    [] IsFunction(n) -> "end"
    [] OTHER -> "]"

----------------------------------------------------------------------------
\* C1.  Inline forcing is irreversible: once inlined() has been applied, no
\* number of indent() calls enables indentation again, while on an enabled
\* context the depth is exactly the number of indent() calls; and whatever
\* is rendered under an inlined context is written without a newline: an
\* Expr rendered under a disabled context, an operator application, a call
\* or an access under any context, and the condition of an if, while or for
\* under any context (the first line runs up to `then` or `do`), and the
\* left side of an assignment under any context.
InlineForcingIrreversible ==
  /\ is_some(forcedAt) => ambient.indentation = None
  /\ ~is_some(forcedAt) => ambient.indentation = Some(indents)
  /\ (Shown /\ ~Indented /\ node.k \in ExprKinds) => ~HasNewline(out)
  /\ (Shown /\ node.k \in {"UnaryOp", "BinaryOp", "Access", "Call"}) => ~HasNewline(out)
  /\ (Shown /\ Indented /\ node.k \in {"If", "While", "For"}) =>
       \E i \in 1..Len(out) :
         /\ out[i] = NL
         /\ \A j \in 1..(i - 1) : out[j] /= NL
         /\ out[i - 1] = (IF node.k = "If" THEN "then" ELSE "do")
  /\ (Shown /\ node.k = "Assign") =>
       \E n \in 1..Len(out) :
         /\ SubSeq(out, 1, n) = FmtExpr(node.left, [ambient EXCEPT !.indentation = None])
         /\ SubSeq(out, n + 1, n + 3) = <<SP, "=", SP>>
         /\ ~HasNewline(SubSeq(out, 1, n))

\* A call whose argument is a two-statement function literal, rendered after
\* inlined() was applied at depth 0 and indent() was called twice after it.
InlineForcingWitness ==
  /\ Shown
  /\ forcedAt = Some(0)
  /\ indents = 2
  /\ node.k = "Call"
  /\ IsFunction(node.args[1])
  /\ node.args[1].literal.body.k = "Block"
  /\ Len(node.args[1].literal.body.stmts) = 2
  /\ Count(out, "return") = 1

----------------------------------------------------------------------------
\* C2.  Indentation monotonicity: when a construct that opens a nested block
\* is rendered in indented mode at depth D, every line between its first and
\* its last line that is not blank and is not the construct's own `else`
\* line starts with more than D indentation units.
IndentationMonotonic ==
  (Shown /\ Indented /\ OpensBlock(node)) =>
    \A i \in LineStarts(out) :
      (i /= 1 /\ i /= LastLineStart(out) /\ ~BlankLine(out, i)) =>
        \/ LeadingIndent(out, i) > Depth
        \/ /\ node.k = "If"
           /\ ~is_empty(node.otherwise)
           /\ LeadingIndent(out, i) = Depth
           /\ out[i + Depth] = "else"
           /\ out[i + Depth + 1] = NL

----------------------------------------------------------------------------
\* C3.  The tokens a conditional writes itself are those of its text that
\* are not part of the text of its condition or of its rendered branches.
OwnCount(token) ==
  Count(out, token)
  - Count(FmtExpr(node.condition, inlined(ambient)), token)
  - (IF is_empty(node.then) THEN 0
     ELSE Count(FmtBlock(node.then, indent(ambient)), token))
  - (IF is_empty(node.otherwise) THEN 0
     ELSE Count(FmtBlock(node.otherwise, indent(ambient)), token))

Branches == {node.then, node.otherwise}

\* C3 as stated: `then` is absent exactly when the then-block is empty.
ThenAbsentIffThenEmpty ==
  (Shown /\ node.k = "If") => ((OwnCount("then") = 0) <=> is_empty(node.then))

\* C3 as amended: a conditional always writes `if`, `then` and `end`, each
\* once; it writes `else` exactly when the else-block is not empty; and in
\* indented mode at depth D every statement of a non-empty branch starts a
\* line at depth D + 1.
ConditionalKeywords ==
  (Shown /\ node.k = "If") =>
    /\ OwnCount("if") = 1
    /\ OwnCount("then") = 1
    /\ OwnCount("end") = 1
    /\ OwnCount("else") = (IF is_empty(node.otherwise) THEN 0 ELSE 1)
    /\ Indented =>
         \A b \in {br \in Branches : br.k = "Block"} :
           \A i \in 1..Len(b.stmts) :
             IsInfix(<<NL>> \o IndentationFmt(Depth + 1)
                       \o FmtStatement(b.stmts[i], [ambient EXCEPT !.indentation = Some(Depth + 1)]),
                     out)

\* A conditional with an empty then-block and a two-statement else-block,
\* rendered in indented mode at depth 1.
ConditionalWitness ==
  /\ Shown
  /\ node.k = "If"
  /\ ambient.indentation = Some(1)
  /\ node.then = BlockOf(<<>>)
  /\ node.otherwise.k = "Block"
  /\ Len(node.otherwise.stmts) = 2
  /\ Count(out, "then") = 1

----------------------------------------------------------------------------
\* C4.  An ill-formed Block, Expr, Statement or Redirection, and an Argument
\* at the invalid position, render as the marker and nothing else, under
\* every context.
IsIllFormed(n) ==
  \/ n.k \in {"BlockIllFormed", "ExprIllFormed", "StatementIllFormed", "RedirectionIllFormed"}
  \/ n.k = "Argument" /\ n.pos = IllFormedPos

IllFormedIsMarker ==
  (Shown /\ IsIllFormed(node)) => out = <<"***ill-formed***">>

\* The ill-formed block rendered in indented mode at depth 2.
IllFormedWitness ==
  /\ Shown
  /\ node = BlockIllFormed
  /\ ambient.indentation = Some(2)
  /\ out = <<"***ill-formed***">>

----------------------------------------------------------------------------
\* C5.  The diagnostic renderer has an arm for every variant: no diagnostic
\* text holds the trace of a match without an arm.
DiagnosticTotal ==
  pc \in {"dumped", "dumped_expanded"} => Count(dbg, NoBranch) = 0

----------------------------------------------------------------------------
\* C6.  The compact diagnostic text of a well-formed Expr holds no raw
\* newline.
DiagnosticCompactOneLine ==
  (pc = "dumped" /\ node.k \in ExprKinds /\ WellFormedExpr(node)) => ~HasNewline(dbg)

----------------------------------------------------------------------------
\* C7.  Diagnostic rendering is lossless: the text of a statement holds the
\* text of each of its child expressions and its identifier handle, and a
\* let-binding with another initializer has another text.
ChildExprs(statement) ==
  CASE statement.k = "Let" -> {statement.init}
    [] statement.k = "Assign" -> {statement.left, statement.right}
    [] statement.k = "Return" -> {statement.expr}
    [] statement.k = "While" -> {statement.condition}
    [] statement.k = "For" -> {statement.expr}
    [] statement.k = "Expr" -> {statement.expr}
    [] OTHER -> {}

DiagnosticLossless ==
  (pc = "dumped" /\ node.k \in StatementKinds) =>
    /\ \A e \in ChildExprs(node) : IsInfix(DebugExpr(e, FALSE), dbg)
    /\ node.k \in {"Let", "For"} => IsInfix(IdFmt(node.identifier), dbg)
    /\ node.k = "Let" =>
         \A e \in Leaves :
           e /= node.init => DebugStatement(Let(node.identifier, e), FALSE) /= dbg

----------------------------------------------------------------------------
\* C8.  A command block at depth D: opening token, a step to depth D + 1,
\* the head command, `;` and a step to depth D + 1 before each tail
\* command, a step to depth D, `}`; a step is one space in compact mode.  A
\* command is its head followed by ` | ` and each command of its tail.
StepText(enabled, depth) ==
  IF enabled THEN <<NL>> \o [i \in 1..depth |-> "    "] ELSE <<SP>>

\* C8 as stated: `ls -la | grep foo` in a synchronous block at depth 0
\* renders as `{\n    ls -la | grep foo\n}`.
PipelineExampleUnquoted ==
  (Shown /\ node = LsGrepBlock /\ ambient.indentation = Some(0)) =>
    out = <<"{", "\n", "    ", "ls", " ", "-la", " ", "|", " ", "grep", " ", "foo", "\n", "}">>

\* C8 as amended: the layout above, with every argument of the example in
\* double quotes: `{\n    "ls" "-la" | "grep" "foo"\n}`.
CommandBlockLayout ==
  /\ (Shown /\ node.k = "CommandBlockNode") =>
       LET d == IF Indented THEN Depth ELSE 0 IN
         out = (CASE node.kind = "Synchronous" -> <<"{">>
                  [] node.kind = "Asynchronous" -> <<"&{">>
                  [] node.kind = "Capture" -> <<"${">>)
               \o StepText(Indented, d + 1)
               \o FmtCommand(node.head, ambient.interner)
               \o Flatten([i \in 1..Len(node.tail) |->
                             <<";">> \o StepText(Indented, d + 1)
                             \o FmtCommand(node.tail[i], ambient.interner)])
               \o StepText(Indented, d)
               \o <<"}">>
  /\ (Shown /\ node.k = "Command") =>
       out = FmtBasicCommand(node.head, ambient.interner)
             \o Flatten([i \in 1..Len(node.tail) |->
                           <<" ", "|", " ">>
                           \o FmtBasicCommand(node.tail[i], ambient.interner)])
  /\ (Shown /\ node = LsGrepBlock /\ ambient.indentation = Some(0)) =>
       out = <<"{", "\n", "    ", "\"", "ls", "\"", " ", "\"", "-la", "\"", " ", "|", " ",
               "\"", "grep", "\"", " ", "\"", "foo", "\"", "\n", "}">>

\* An asynchronous block with two tail commands rendered at depth 1.
CommandBlockWitness ==
  /\ Shown
  /\ node.k = "CommandBlockNode"
  /\ node.kind = "Asynchronous"
  /\ Len(node.tail) = 2
  /\ ambient.indentation = Some(1)
  /\ Count(out, ";") = 2

----------------------------------------------------------------------------
\* C9.  Rendering a child leaves the context of what follows untouched: in
\* a Block every statement is rendered as it is rendered alone under the
\* same context, whatever precedes it; and in indented mode the last line of
\* a construct that opens a nested block is its closing token at the depth
\* the construct was given.
ContextFrame ==
  /\ (Shown /\ node.k = "Block") =>
       out = sep_by([i \in 1..Len(node.stmts) |->
                       FmtBlock(BlockOf(<<node.stmts[i]>>), ambient)],
                    IF Indented THEN <<NL>> ELSE <<";">>)
  /\ (Shown /\ Indented /\ OpensBlock(node)) =>
       SubSeq(out, LastLineStart(out), Len(out))
         = IndentationFmt(Depth) \o <<Closer(node)>>

\* A block of three statements whose first is a while loop with a body,
\* rendered in indented mode at depth 1.
ContextFrameWitness ==
  /\ Shown
  /\ node.k = "Block"
  /\ ambient.indentation = Some(1)
  /\ Len(node.stmts) = 3
  /\ node.stmts[1].k = "While"
  /\ node.stmts[1].block /= BlockOf(<<>>)
  /\ node.stmts[2].k = "Let"

----------------------------------------------------------------------------
\* C10.  In compact mode every `then`, `else`, `end` and `do` of a rendered
\* conditional or loop follows a space.
CompactKeywordsSpaced ==
  (Shown /\ ~Indented /\ node.k \in {"If", "While", "For"}) =>
    \A i \in 1..Len(out) :
      out[i] \in {"then", "else", "end", "do"} => (i > 1 /\ out[i - 1] = SP)

====
